---- MODULE Spec2Model ----
(***************************************************************************)
(* A model of src/src/cos_bucket.py: the bucket handle TencentCosBucket of *)
(* the Tencent COS client.  Two specifications share the variables:        *)
(*   SpecResolve  the constructor (__init__), one loop iteration of        *)
(*                _get_correct_cos_region per step;                        *)
(*   Spec         the object operations on a constructed handle.           *)
(* Strings the code concatenates only (region codes, bucket names, URLs)   *)
(* are TLA+ strings; strings the code takes apart (object keys, paths)     *)
(* are sequences of one-character strings.                                 *)
(***************************************************************************)
EXTENDS Naturals, Sequences, FiniteSets, TLC

VARIABLES
    self,     \* the handle: cos (the identity), name, full_name, base_url, region
    pc,       \* "resolving" inside _get_correct_cos_region, "done" after __init__
    i,        \* 1-based index of the loop of _get_correct_cos_region into REGIONS
    probes,   \* the list_objects probes issued by the constructor, in order
    faults,   \* probes that failed with something else than NoSuchBucket, so far
    home,     \* the provider: the region codes whose endpoint hosts the bucket
    objects,  \* the provider: the bucket's content, key -> [body, md5]
    local,    \* the local files the downloads wrote, path -> body
    ret,      \* the last operation, its arguments and what it returned or raised
    calls     \* the provider calls the last operation issued, in order

vars == <<self, pc, i, probes, faults, home, objects, local, ret, calls>>

(***************************************************************************)
(* Bounds of the model.                                                    *)
(***************************************************************************)
\* Probes of one construction that may fail with another error than NoSuchBucket.
MaxFaults == 2

\* The provider call of an operation that may fail: none, or the first .. MaxFailAt-th.
MaxFailAt == 4

\* The longest object path given to _parse_object_path_name on its own.
MaxPathLen == 4

(***************************************************************************)
(* Strings as sequences of characters.                                     *)
(***************************************************************************)
\* Python's None, and an attribute __init__ has not assigned yet.
None == "None"
Unset == "unset"

\* "".join(s): the TLA+ string of a sequence of characters.
RECURSIVE Str(_)
Str(s) == IF s = <<>> THEN "" ELSE Head(s) \o Str(Tail(s))

\* s.startswith(p)
StartsWith(s, p) == Len(p) <= Len(s) /\ SubSeq(s, 1, Len(p)) = p

\* s.endswith(p)
EndsWith(s, p) == Len(p) <= Len(s) /\ SubSeq(s, Len(s) - Len(p) + 1, Len(s)) = p

\* s[n:]
Drop(s, n) == SubSeq(s, n + 1, Len(s))

\* s[:-1]
DropLast(s) == SubSeq(s, 1, Len(s) - 1)

\* s.replace(old, ''): every non-overlapping occurrence of old, left to right,
\* is removed; replacing the empty string by the empty string changes nothing.
RECURSIVE Replace(_, _)
Replace(s, old) ==
    IF old = <<>> \/ s = <<>> THEN s
    ELSE IF StartsWith(s, old) THEN Replace(Drop(s, Len(old)), old)
    ELSE <<Head(s)>> \o Replace(Tail(s), old)

\* '/' in s
HasSlash(s) == \E k \in 1..Len(s) : s[k] = "/"

\* The index of the last '/' of s, 0 when there is none.
LastSlash(s) ==
    IF HasSlash(s) THEN CHOOSE k \in 1..Len(s) :
                            s[k] = "/" /\ \A m \in (k + 1)..Len(s) : s[m] # "/"
    ELSE 0

(***************************************************************************)
(* The client identity (TencentCos, in cos.py) and the handle's fields.    *)
(***************************************************************************)
REGIONS == <<"nanjing", "chengdu", "beijing", "guangzhou", "shanghai", "chongqing", "hongkong">>

\* TencentCos(secret_id, secret_key, region)
TencentCos(secret_id, secret_key, region) ==
    [secret_id |-> secret_id, secret_key |-> secret_key, region |-> region]

\* cos.get_appid(): the account id of the credentials.
get_appid(cos) == "125" \o cos.secret_id

\* bucket_name + '-' + self.cos.get_appid()
FullName(bucket_name, cos) == bucket_name \o "-" \o get_appid(cos)

\* _get_bucket_url: the URL of the bucket full_name at the endpoint of region.
BucketUrl(full_name, region) ==
    "https://" \o full_name \o ".cos." \o region \o ".myqcloud.com/"

_get_bucket_url(s) == BucketUrl(s.full_name, s.cos.region)

\* f'ap-{region}'
ApRegion(region) == "ap-" \o region

\* The handle after lines 21-24 of __init__, before region resolution.
NewHandle(cos, bucket_name) ==
    LET s == [cos |-> cos, name |-> bucket_name,
              full_name |-> FullName(bucket_name, cos),
              base_url |-> Unset, region |-> Unset]
    IN  [s EXCEPT !.base_url = _get_bucket_url(s)]

(***************************************************************************)
(* Region resolution: _get_correct_cos_region.                             *)
(***************************************************************************)
\* What the provider answers to list_objects(Bucket=full_name) on the identity cos
\* when nothing else goes wrong.
ProbeAnswer(cos, hosts) == IF cos.region \in hosts THEN "ok" ELSE "NoSuchBucket"

\* One iteration of `for region in REGIONS` on st = [self, pc, i, probes], the probe
\* ending with outcome o: "ok", "NoSuchBucket", "OtherCode" (a CosServiceError of
\* another code) or "Exception" (an exception that is no CosServiceError).  The
\* loop's end (return None) is taken with the last iteration.
GetCorrectCosRegionIter(st, o) ==
    LET region == REGIONS[st.i]
        probed == Append(st.probes, [region |-> st.self.cos.region,
                                     bucket |-> st.self.full_name,
                                     outcome |-> o])
        cos2   == TencentCos(st.self.cos.secret_id, st.self.cos.secret_key, ApRegion(region))
        swapped == [st.self EXCEPT !.cos = cos2,
                                   !.full_name = FullName(st.self.name, cos2)]
        after  == IF o = "NoSuchBucket" THEN swapped ELSE st.self
    IN  IF o = "ok"
        THEN [self |-> [st.self EXCEPT !.region = region],
              pc |-> "done", i |-> st.i, probes |-> probed]
        ELSE IF st.i = Len(REGIONS)
        THEN [self |-> [after EXCEPT !.region = None],
              pc |-> "done", i |-> st.i, probes |-> probed]
        ELSE [self |-> after, pc |-> "resolving", i |-> st.i + 1, probes |-> probed]

\* The constructor run to its end against a provider that hosts the bucket in
\* `hosts` and fails in no other way.
RECURSIVE RunResolution(_, _)
RunResolution(st, hosts) ==
    IF st.pc = "done" THEN st
    ELSE RunResolution(GetCorrectCosRegionIter(st, ProbeAnswer(st.self.cos, hosts)), hosts)

(***************************************************************************)
(* The inputs of the constructor.                                          *)
(***************************************************************************)
CandidateCodes == {ApRegion(REGIONS[k]) : k \in 1..Len(REGIONS)}

\* The region the caller configured the identity with: a candidate or another one.
ConfiguredRegions == CandidateCodes \cup {"ap-singapore"}

\* Where the bucket is hosted: nowhere, or in one region.
HomeChoices == {{}} \cup {{r} : r \in ConfiguredRegions}

BucketName == "demo"
SecretId == "1"
SecretKey == "k"

NoRet == [op |-> "none"]

\* A bucket without objects.
EmptyBucket == [k \in {} |-> None]

\* No file downloaded yet.
NoFiles == [k \in {} |-> ""]

InitResolve ==
    /\ \E cfg \in ConfiguredRegions :
         self = NewHandle(TencentCos(SecretId, SecretKey, cfg), BucketName)
    /\ home \in HomeChoices
    /\ pc = "resolving"
    /\ i = 1
    /\ probes = <<>>
    /\ faults = 0
    /\ objects = EmptyBucket
    /\ local = NoFiles
    /\ ret = NoRet
    /\ calls = <<>>

\* One iteration of the loop whose probe ends with outcome o.
Iterate(o) ==
    LET st == GetCorrectCosRegionIter(
                  [self |-> self, pc |-> pc, i |-> i, probes |-> probes], o)
    IN  /\ self' = st.self
        /\ pc' = st.pc
        /\ i' = st.i
        /\ probes' = st.probes
        /\ UNCHANGED <<home, objects, local, ret, calls>>

\* The probe answers: the bucket is listed, or the endpoint does not host it.
ProbeAnswered ==
    /\ pc = "resolving"
    /\ Iterate(ProbeAnswer(self.cos, home))
    /\ UNCHANGED faults

\* The probe fails with a CosServiceError of another code than NoSuchBucket.
ProbeOtherCode ==
    /\ pc = "resolving"
    /\ faults < MaxFaults
    /\ Iterate("OtherCode")
    /\ faults' = faults + 1

\* The probe fails with an exception that is no CosServiceError.
ProbeException ==
    /\ pc = "resolving"
    /\ faults < MaxFaults
    /\ Iterate("Exception")
    /\ faults' = faults + 1

NextResolve == ProbeAnswered \/ ProbeOtherCode \/ ProbeException

SpecResolve == InitResolve /\ [][NextResolve]_vars

(***************************************************************************)
(* The provider: a flat store of objects, key -> [body, md5].              *)
(***************************************************************************)
\* The code point of a character, for the provider's order of keys.
Ord(c) ==
    CASE c = " " -> 32
      [] c = "." -> 46
      [] c = "/" -> 47
      [] c = "a" -> 97
      [] c = "b" -> 98
      [] c = "l" -> 108
      [] c = "m" -> 109
      [] c = "r" -> 114
      [] c = "x" -> 120
      [] c = "z" -> 122

\* a < b in the order of the code points.
RECURSIVE KeyLess(_, _)
KeyLess(a, b) ==
    IF a = <<>> THEN b # <<>>
    ELSE IF b = <<>> THEN FALSE
    ELSE IF Head(a) = Head(b) THEN KeyLess(Tail(a), Tail(b))
    ELSE Ord(Head(a)) < Ord(Head(b))

\* The keys of S in ascending order.
RECURSIVE SortKeys(_)
SortKeys(S) ==
    IF S = {} THEN <<>>
    ELSE LET m == CHOOSE k \in S : \A j \in S \ {k} : KeyLess(k, j)
         IN  <<m>> \o SortKeys(S \ {m})

\* client.list_objects(Bucket, Prefix)['Contents']: the keys that start with the
\* prefix, in ascending order.
ListObjectsKeys(objs, prefix) == SortKeys({k \in DOMAIN objs : StartsWith(k, prefix)})

\* client.put_object(Bucket, Body, Key, Metadata)
PutObject(objs, key, body, md5) ==
    [k \in DOMAIN objs \cup {key} |->
        IF k = key THEN [body |-> body, md5 |-> md5] ELSE objs[k]]

\* client.delete_object(Bucket, Key); deleting a key that is not stored succeeds.
DeleteObject(objs, key) == [k \in DOMAIN objs \ {key} |-> objs[k]]

\* The provider call that follows the calls `done` of an operation raises when it
\* is the failAt-th call of the operation (failAt = 0: no call fails).
Raises(failAt, done) == failAt = Len(done) + 1

Call(name, key) == [call |-> name, key |-> key]

Return(v) == [kind |-> "return", value |-> v]
Raise(e) == [kind |-> "raise", exc |-> e]

\* x in s, for a list s
InSeq(x, s) == \E k \in 1..Len(s) : s[k] = x

(***************************************************************************)
(* Listing: _list_objects, list_all_dirs, list_all_files, list_dir_files.  *)
(* Each takes the bucket, the failing call and the calls issued so far,    *)
(* and gives [out, calls].                                                 *)
(***************************************************************************)
_list_objects(objs, failAt, done, prefix) ==
    LET issued == Append(done, Call("list_objects", prefix))
        keys == ListObjectsKeys(objs, prefix)
    IN  IF Raises(failAt, done)
        THEN [out |-> Raise("CosServiceError"), calls |-> issued]
        ELSE [out |-> Return([k \in 1..Len(keys) |-> Replace(keys[k], prefix)]),
              calls |-> issued]

list_all_dirs(objs, failAt, done) ==
    LET l == _list_objects(objs, failAt, done, <<>>)
        dirs == SelectSeq(l.out.value, LAMBDA ob : EndsWith(ob, <<"/">>))
    IN  IF l.out.kind = "raise" THEN l
        ELSE [out |-> Return([k \in 1..Len(dirs) |-> DropLast(dirs[k])]),
              calls |-> l.calls]

list_all_files(objs, failAt, done) ==
    LET l == _list_objects(objs, failAt, done, <<>>)
    IN  IF l.out.kind = "raise" THEN l
        ELSE [out |-> Return(SelectSeq(l.out.value, LAMBDA ob : ~EndsWith(ob, <<"/">>))),
              calls |-> l.calls]

\* remote_dir as list_dir_files normalises it: no leading and one trailing '/'.
NormalDir(remote_dir) ==
    LET d == IF StartsWith(remote_dir, <<"/">>) THEN Drop(remote_dir, 1) ELSE remote_dir
    IN  IF ~EndsWith(d, <<"/">>) THEN d \o <<"/">> ELSE d

list_dir_files(objs, failAt, done, remote_dir) ==
    IF remote_dir \notin {<<>>, <<"/">>}
    THEN LET d == NormalDir(remote_dir)
             dirs == list_all_dirs(objs, failAt, done)
         IN  IF dirs.out.kind = "raise" THEN dirs
             ELSE IF ~InSeq(DropLast(d), dirs.out.value)
             THEN [out |-> Raise("CosBucketDirNotFoundError"), calls |-> dirs.calls]
             ELSE _list_objects(objs, failAt, dirs.calls, d)
    ELSE _list_objects(objs, failAt, done, remote_dir)

(***************************************************************************)
(* Paths.                                                                  *)
(***************************************************************************)
\* _parse_object_path_name: <<directory, leaf>>, split at the last '/'.
_parse_object_path_name(object_full_path) ==
    IF ~HasSlash(object_full_path) THEN <<<<>>, object_full_path>>
    ELSE LET k == LastSlash(object_full_path)
         IN  <<SubSeq(object_full_path, 1, k - 1), Drop(object_full_path, k)>>

\* Path(local_file_path).name: the final component of a local path.
PathName(local_file_path) == Drop(local_file_path, LastSlash(local_file_path))

\* os.path.join(remote_dir, file_name)
PathJoin(a, b) ==
    IF StartsWith(b, <<"/">>) THEN b
    ELSE IF a = <<>> \/ EndsWith(a, <<"/">>) THEN a \o b
    ELSE a \o <<"/">> \o b

HexDigits == <<"0", "1", "2", "3", "4", "5", "6", "7", "8", "9", "A", "B", "C", "D", "E", "F">>

\* The characters urllib.parse.quote leaves alone: letters, digits, '_.-~' and '/'.
QuoteSafe == {"a", "b", "l", "m", "r", "x", "z", ".", "/"}

\* urllib.parse.quote(s): every other character becomes %XX of its code point.
RECURSIVE quote(_)
quote(s) ==
    IF s = <<>> THEN <<>>
    ELSE (IF Head(s) \in QuoteSafe THEN <<Head(s)>>
          ELSE <<"%", HexDigits[(Ord(Head(s)) \div 16) + 1],
                      HexDigits[(Ord(Head(s)) % 16) + 1]>>) \o quote(Tail(s))

(***************************************************************************)
(* The local file system the uploads read.                                 *)
(***************************************************************************)
\* get_local_file_md5: the hash of a file's bytes.
get_local_file_md5(body) == "md5(" \o body \o ")"

LocalFS ==
    (<<"l", "/", "x">> :> [kind |-> "file", body |-> "A"]) @@
    (<<"m", "/", "x">> :> [kind |-> "file", body |-> "B"]) @@
    (<<"l", "/", "a", " ", "b">> :> [kind |-> "file", body |-> "A"]) @@
    (<<"l">> :> [kind |-> "dir", body |-> None])

(***************************************************************************)
(* Operations that change the bucket give [objs, out, calls].              *)
(***************************************************************************)
\* mkdir storing the path as given, without the trailing '/'.
mkdir_AsGiven(objs, failAt, remote_dir_path) ==
    IF Raises(failAt, <<>>)
    THEN [objs |-> objs, out |-> Return(FALSE),
          calls |-> <<Call("put_object", remote_dir_path)>>]
    ELSE [objs |-> PutObject(objs, remote_dir_path, "", None), out |-> Return(TRUE),
          calls |-> <<Call("put_object", remote_dir_path)>>]

mkdir(objs, failAt, remote_dir_path) ==
    LET path == IF ~EndsWith(remote_dir_path, <<"/">>)
                THEN remote_dir_path \o <<"/">> ELSE remote_dir_path
        issued == <<Call("put_object", path)>>
    IN  IF Raises(failAt, <<>>)
        THEN [objs |-> objs, out |-> Return(FALSE), calls |-> issued]
        ELSE [objs |-> PutObject(objs, path, "", None), out |-> Return(TRUE),
              calls |-> issued]

\* _upload_object without the x-cos-meta-md5 metadata.
_upload_object_NoMetadata(objs, failAt, local_file_path, remote_dir, overwrite) ==
    LET file_name == PathName(local_file_path)
        listed == _list_objects(objs, failAt, <<>>, <<>>)
        key == PathJoin(remote_dir, file_name)
        file == LocalFS[local_file_path]
        issued == Append(listed.calls, Call("put_object", key))
    IN  IF local_file_path \notin DOMAIN LocalFS
        THEN [objs |-> objs, out |-> Return(<<FALSE, "doesnt exists">>), calls |-> <<>>]
        ELSE IF listed.out.kind = "raise"
        THEN [objs |-> objs, out |-> listed.out, calls |-> listed.calls]
        ELSE IF InSeq(file_name, listed.out.value) /\ ~overwrite
        THEN [objs |-> objs, out |-> Return(<<TRUE, "skipped">>), calls |-> listed.calls]
        ELSE IF file.kind # "file"
        THEN [objs |-> objs, out |-> Return(<<FALSE, "IsADirectoryError">>),
              calls |-> listed.calls]
        ELSE IF Raises(failAt, listed.calls)
        THEN [objs |-> objs, out |-> Return(<<FALSE, "CosServiceError">>), calls |-> issued]
        ELSE [objs |-> PutObject(objs, key, file.body, None),
              out |-> Return(<<TRUE, "SUCCESS">>), calls |-> issued]

\* _upload_object; out.value is the pair <<result, msg>>.
_upload_object(objs, failAt, local_file_path, remote_dir, overwrite) ==
    LET file_name == PathName(local_file_path)
        listed == _list_objects(objs, failAt, <<>>, <<>>)
        key == PathJoin(remote_dir, file_name)
        file == LocalFS[local_file_path]
        issued == Append(listed.calls, Call("put_object", key))
    IN  IF local_file_path \notin DOMAIN LocalFS
        THEN [objs |-> objs, out |-> Return(<<FALSE, "doesnt exists">>), calls |-> <<>>]
        ELSE IF listed.out.kind = "raise"
        THEN [objs |-> objs, out |-> listed.out, calls |-> listed.calls]
        ELSE IF InSeq(file_name, listed.out.value) /\ ~overwrite
        THEN [objs |-> objs, out |-> Return(<<TRUE, "skipped">>), calls |-> listed.calls]
        ELSE IF file.kind # "file"
        THEN [objs |-> objs, out |-> Return(<<FALSE, "IsADirectoryError">>),
              calls |-> listed.calls]
        ELSE IF Raises(failAt, listed.calls)
        THEN [objs |-> objs, out |-> Return(<<FALSE, "CosServiceError">>), calls |-> issued]
        ELSE [objs |-> PutObject(objs, key, file.body, get_local_file_md5(file.body)),
              out |-> Return(<<TRUE, "SUCCESS">>), calls |-> issued]

upload_file(objs, failAt, local_file_path, remote_dir, overwrite) ==
    LET r == _upload_object(objs, failAt, local_file_path, remote_dir, overwrite)
    IN  IF r.out.kind = "raise" THEN r
        ELSE [r EXCEPT !.out = Return(r.out.value[1])]

\* _delete_object
_delete_object(objs, failAt, done, object_full_path) ==
    LET issued == Append(done, Call("delete_object", object_full_path))
    IN  IF Raises(failAt, done)
        THEN [objs |-> objs, out |-> Raise("CosServiceError"), calls |-> issued]
        ELSE [objs |-> DeleteObject(objs, object_full_path), out |-> Return(None),
              calls |-> issued]

\* is_object_exists
is_object_exists(objs, failAt, done, object_full_path) ==
    LET issued == Append(done, Call("object_exists", object_full_path))
    IN  IF Raises(failAt, done)
        THEN [out |-> Raise("CosServiceError"), calls |-> issued]
        ELSE [out |-> Return(object_full_path \in DOMAIN objs), calls |-> issued]

\* _delete_file
_delete_file(objs, failAt, done, dir, object_key) ==
    LET remote_dir == IF ~EndsWith(dir, <<"/">>) /\ dir # <<>>
                      THEN dir \o <<"/">> ELSE dir
        listed == list_dir_files(objs, failAt, done, remote_dir)
        deleted == _delete_object(objs, failAt, listed.calls, remote_dir \o object_key)
    IN  IF listed.out.kind = "raise"
        THEN [objs |-> objs, out |-> listed.out, calls |-> listed.calls]
        ELSE IF ~InSeq(object_key, listed.out.value)
        THEN [objs |-> objs, out |-> Return(<<FALSE, "not found in dir">>),
              calls |-> listed.calls]
        ELSE IF deleted.out.kind = "raise" THEN deleted
        ELSE [deleted EXCEPT !.out = Return(<<TRUE, "">>)]

\* delete_file without the existence check.
delete_file_Unchecked(objs, failAt, remote_file_path) ==
    LET parsed == _parse_object_path_name(remote_file_path)
    IN  _delete_file(objs, failAt, <<>>, parsed[1], parsed[2])

delete_file(objs, failAt, remote_file_path) ==
    LET exists == is_object_exists(objs, failAt, <<>>, remote_file_path)
        parsed == _parse_object_path_name(remote_file_path)
    IN  IF exists.out.kind = "raise"
        THEN [objs |-> objs, out |-> exists.out, calls |-> exists.calls]
        ELSE IF ~exists.out.value
        THEN [objs |-> objs, out |-> Return(TRUE), calls |-> exists.calls]
        ELSE _delete_file(objs, failAt, exists.calls, parsed[1], parsed[2])

\* for file in files: self._delete_object(file)
RECURSIVE DeleteEach(_, _, _, _)
DeleteEach(objs, failAt, done, files) ==
    IF files = <<>> THEN [objs |-> objs, out |-> Return(None), calls |-> done]
    ELSE LET d == _delete_object(objs, failAt, done, Head(files))
         IN  IF d.out.kind = "raise" THEN d
             ELSE DeleteEach(d.objs, failAt, d.calls, Tail(files))

delete_dir_files(objs, failAt, remote_dir) ==
    LET listed == list_dir_files(objs, failAt, <<>>, remote_dir)
    IN  IF listed.out.kind = "raise"
        THEN [objs |-> objs, out |-> listed.out, calls |-> listed.calls]
        ELSE DeleteEach(objs, failAt, listed.calls, listed.out.value)

delete_all_files(objs, failAt) ==
    LET listed == _list_objects(objs, failAt, <<>>, <<>>)
    IN  IF listed.out.kind = "raise"
        THEN [objs |-> objs, out |-> listed.out, calls |-> listed.calls]
        ELSE DeleteEach(objs, failAt, listed.calls, listed.out.value)

(***************************************************************************)
(* Metadata and URL.                                                       *)
(***************************************************************************)
\* _get_object_url
_get_object_url(remote_path, object_key) ==
    self.base_url \o Str(quote(remote_path \o object_key))

get_file_url(objs, failAt, remote_file_path) ==
    LET exists == is_object_exists(objs, failAt, <<>>, remote_file_path)
        parsed == _parse_object_path_name(remote_file_path)
    IN  IF exists.out.kind = "raise" THEN exists
        ELSE IF ~exists.out.value THEN [out |-> Return(""), calls |-> exists.calls]
        ELSE [out |-> Return(_get_object_url(parsed[1], parsed[2])), calls |-> exists.calls]

\* get_file_md5, with _get_object_md5hash and _get_object_info
get_file_md5(objs, failAt, remote_file_path) ==
    LET exists == is_object_exists(objs, failAt, <<>>, remote_file_path)
        issued == Append(exists.calls, Call("get_object", remote_file_path))
    IN  IF exists.out.kind = "raise" THEN exists
        ELSE IF ~exists.out.value THEN [out |-> Return(""), calls |-> exists.calls]
        ELSE IF Raises(failAt, exists.calls)
        THEN [out |-> Raise("CosServiceError"), calls |-> issued]
        ELSE [out |-> Return(objs[remote_file_path].md5), calls |-> issued]

\* download_file with _download_object; gives [out, calls, local]. The provider
\* writes the object's bytes to DestFilePath or raises, and any exception gives False.
download_file(objs, files, failAt, remote_file_path, local_dir) ==
    LET parsed == _parse_object_path_name(remote_file_path)
        local_file_path == PathJoin(local_dir, parsed[2])
        issued == <<Call("download_file", remote_file_path)>>
    IN  IF Raises(failAt, <<>>) \/ remote_file_path \notin DOMAIN objs
        THEN [out |-> Return(FALSE), calls |-> issued, local |-> files]
        ELSE [out |-> Return(TRUE), calls |-> issued,
              local |-> [k \in DOMAIN files \cup {local_file_path} |->
                            IF k = local_file_path THEN objs[remote_file_path].body
                            ELSE files[k]]]

(***************************************************************************)
(* The object operations on a constructed handle.                          *)
(***************************************************************************)
MkdirArgs == {<<"r">>, <<"r", "/">>}

\* remote_dir of list_dir_files and delete_dir_files
DirArgs == {<<>>, <<"/">>, <<"r">>, <<"r", "/">>, <<"/", "r">>}

\* remote_dir of upload_file
RemoteDirs == {<<>>, <<"r">>, <<"r", "/">>}

\* local_file_path of upload_file: the local files, a directory, a missing path
LocalPaths == DOMAIN LocalFS \cup {<<"l", "/", "z">>}

\* remote_file_path of download_file: two files with one leaf name, a missing one
DownloadArgs == {<<"x">>, <<"r", "/", "x">>, <<"z">>}

\* local_dir of download_file, a directory no upload reads
LocalDir == <<"d">>

\* Object paths given to delete_file, get_file_url, get_file_md5, is_object_exists
PathArgs ==
    {<<"x">>, <<"r", "/", "x">>, <<"r", "/">>, <<"a", " ", "b">>,
     <<"r", "/", "a", " ", "b">>, <<"z">>, <<"/", "r", "/", "x">>}

FailChoices == 0..MaxFailAt

\* The constructions the operations start from: the configured region and the
\* regions that host the bucket, such that the identity the constructor leaves in
\* the handle reaches the bucket.
OpsConfigs ==
    {[cfg |-> "ap-nanjing", hosts |-> {"ap-guangzhou"}],
     [cfg |-> "ap-guangzhou", hosts |-> {"ap-guangzhou"}],
     [cfg |-> "ap-nanjing", hosts |-> {"ap-hongkong"}]}

\* The state after TencentCosBucket(cos, bucket_name) returned, the bucket empty.
Init ==
    \E c \in OpsConfigs :
        LET st == RunResolution([self |-> NewHandle(TencentCos(SecretId, SecretKey, c.cfg),
                                                    BucketName),
                                 pc |-> "resolving", i |-> 1, probes |-> <<>>], c.hosts)
        IN  /\ self = st.self
            /\ pc = st.pc
            /\ i = st.i
            /\ probes = st.probes
            /\ faults = 0
            /\ home = c.hosts
            /\ objects = EmptyBucket
            /\ local = NoFiles
            /\ ret = NoRet
            /\ calls = <<>>

Handle == <<self, pc, i, probes, faults, home>>

\* The handle is constructed and its caller holds no result of an earlier operation.
Idle == pc = "done" /\ ret = NoRet

\* Done that also forgets the resolved region of the handle.
Done_ForgetsRegion(op, args, failAt, r) ==
    /\ ret' = [op |-> op, args |-> args, failAt |-> failAt, out |-> r.out,
               before |-> objects]
    /\ calls' = r.calls
    /\ local' = IF "local" \in DOMAIN r THEN r.local ELSE local
    /\ self' = [self EXCEPT !.region = Unset]
    /\ UNCHANGED <<pc, i, probes, faults, home>>

\* The operation op with arguments args and failing call failAt gave r; `before`
\* keeps the bucket the operation found. Only a download gives local files.
Done(op, args, failAt, r) ==
    /\ ret' = [op |-> op, args |-> args, failAt |-> failAt, out |-> r.out,
               before |-> objects]
    /\ calls' = r.calls
    /\ local' = IF "local" \in DOMAIN r THEN r.local ELSE local
    /\ UNCHANGED Handle

Mkdir ==
    \E d \in MkdirArgs, f \in FailChoices :
        LET r == mkdir(objects, f, d)
        IN  Idle /\ objects' = r.objs /\ Done("mkdir", <<d>>, f, r)

UploadFile ==
    \E l \in LocalPaths, d \in RemoteDirs, ow \in BOOLEAN, f \in FailChoices :
        LET r == upload_file(objects, f, l, d, ow)
        IN  Idle /\ objects' = r.objs /\ Done("upload_file", <<l, d, ow>>, f, r)

ListDirFiles ==
    \E d \in DirArgs, f \in FailChoices :
        LET r == list_dir_files(objects, f, <<>>, d)
        IN  Idle /\ UNCHANGED objects /\ Done("list_dir_files", <<d>>, f, r)

ListAllDirs ==
    \E f \in FailChoices :
        LET r == list_all_dirs(objects, f, <<>>)
        IN  Idle /\ UNCHANGED objects /\ Done("list_all_dirs", <<>>, f, r)

ListAllFiles ==
    \E f \in FailChoices :
        LET r == list_all_files(objects, f, <<>>)
        IN  Idle /\ UNCHANGED objects /\ Done("list_all_files", <<>>, f, r)

DeleteFile ==
    \E p \in PathArgs, f \in FailChoices :
        LET r == delete_file(objects, f, p)
        IN  Idle /\ objects' = r.objs /\ Done("delete_file", <<p>>, f, r)

DeleteDirFiles ==
    \E d \in DirArgs, f \in FailChoices :
        LET r == delete_dir_files(objects, f, d)
        IN  Idle /\ objects' = r.objs /\ Done("delete_dir_files", <<d>>, f, r)

DeleteAllFiles ==
    \E f \in FailChoices :
        LET r == delete_all_files(objects, f)
        IN  Idle /\ objects' = r.objs /\ Done("delete_all_files", <<>>, f, r)

IsObjectExists ==
    \E p \in PathArgs, f \in FailChoices :
        LET r == is_object_exists(objects, f, <<>>, p)
        IN  Idle /\ UNCHANGED objects /\ Done("is_object_exists", <<p>>, f, r)

GetFileMd5 ==
    \E p \in PathArgs, f \in FailChoices :
        LET r == get_file_md5(objects, f, p)
        IN  Idle /\ UNCHANGED objects /\ Done("get_file_md5", <<p>>, f, r)

GetFileUrl ==
    \E p \in PathArgs, f \in FailChoices :
        LET r == get_file_url(objects, f, p)
        IN  Idle /\ UNCHANGED objects /\ Done("get_file_url", <<p>>, f, r)

\* The caller is done with the result of the last operation.
DownloadFile ==
    \E p \in DownloadArgs, f \in FailChoices :
        LET r == download_file(objects, local, f, p, LocalDir)
        IN  Idle /\ UNCHANGED objects /\ Done("download_file", <<p, LocalDir>>, f, r)

CallerContinues ==
    /\ pc = "done"
    /\ ret # NoRet
    /\ ret' = NoRet
    /\ calls' = <<>>
    /\ UNCHANGED <<objects, local, Handle>>

Next ==
    \/ CallerContinues
    \/ Mkdir
    \/ UploadFile
    \/ ListDirFiles
    \/ ListAllDirs
    \/ ListAllFiles
    \/ DeleteFile
    \/ DeleteDirFiles
    \/ DeleteAllFiles
    \/ IsObjectExists
    \/ GetFileMd5
    \/ GetFileUrl
    \/ DownloadFile

Spec == Init /\ [][Next]_vars

(***************************************************************************)
(* Region resolution: the claims.                                          *)
(***************************************************************************)
\* The bucket is hosted in the candidate REGIONS[k] and nowhere else, and every
\* probe got the provider's answer.
HostedOnlyIn(k) == home = {ApRegion(REGIONS[k])} /\ faults = 0

\* Some probe of the construction failed with NoSuchBucket: the identity was swapped.
Swapped == \E p \in 1..Len(probes) : probes[p].outcome = "NoSuchBucket"

\* The identity regions the constructor probed.
ProbedRegions == {probes[p].region : p \in 1..Len(probes)}

\* C1: when the bucket is hosted in the candidate region R and only there, the
\* constructor ends with the handle's resolved region equal to R.
C1_ResolvesHomeRegion ==
    \A k \in 1..Len(REGIONS) :
        (pc = "done" /\ HostedOnlyIn(k)) => self.region = REGIONS[k]

\* C2: when the bucket is hosted in the candidate region R, the constructor issues
\* as many probes as the 1-based position of R in REGIONS.
C2_ProbeCountIsPosition ==
    \A k \in 1..Len(REGIONS) :
        (pc = "done" /\ HostedOnlyIn(k)) => Len(probes) = k

\* C3: when every probe fails with NoSuchBucket, the constructor ends with no
\* region and has probed every candidate region with an identity pinned to it.
C3_ExhaustsEveryCandidate ==
    (pc = "done" /\ faults = 0 /\ \A p \in 1..Len(probes) : probes[p].outcome = "NoSuchBucket")
        => /\ self.region = None
           /\ CandidateCodes \subseteq ProbedRegions

\* C4: a probe that fails with another error than NoSuchBucket is the last probe,
\* and the constructor then ends with no region.
C4_OtherErrorAbandons ==
    \A p \in 1..Len(probes) :
        probes[p].outcome \in {"OtherCode", "Exception"}
            => /\ p = Len(probes)
               /\ pc = "done" => self.region = None

\* C5: once the identity was swapped, the base URL and the full name are those of
\* the identity the handle holds.
C5_UrlFollowsIdentity ==
    Swapped => /\ self.base_url = BucketUrl(self.full_name, self.cos.region)
               /\ self.full_name = FullName(self.name, self.cos)

(***************************************************************************)
(* The object operations: the claims.                                      *)
(***************************************************************************)
\* The keys stored under the directory key d (d ends with '/'), the marker d apart.
StoredUnder(objs, d) == {k \in DOMAIN objs : StartsWith(k, d) /\ k # d}

\* The names of the objects stored under d, in the provider's order.
NamesUnder(objs, d) ==
    LET keys == SortKeys(StoredUnder(objs, d))
    IN  [n \in 1..Len(keys) |-> Drop(keys[n], Len(d))]

\* The last operation was op on a directory other than the bucket's root.
OnDir(op) == ret.op = op /\ ret.args[1] \notin {<<>>, <<"/">>}

\* C6: list_dir_files(D) of a directory D that holds uploaded files returns the
\* names of the files stored under D and nothing for the marker object D/.
C6_ListDirFilesGivesLeafNames ==
    (/\ OnDir("list_dir_files")
     /\ ret.out.kind = "return"
     /\ StoredUnder(objects, NormalDir(ret.args[1])) # {})
        => ret.out.value = NamesUnder(objects, NormalDir(ret.args[1]))

\* C7: after delete_dir_files(D) whose provider calls all succeeded, no file whose
\* key starts with D/ is left in the bucket.
C7_DeleteDirFilesEmptiesDir ==
    (OnDir("delete_dir_files") /\ ret.out.kind = "return")
        => StoredUnder(objects, NormalDir(ret.args[1])) = {}

\* The path p is directory/leaf, both non-empty.
IsDirLeaf(p) ==
    /\ _parse_object_path_name(p)[1] # <<>>
    /\ _parse_object_path_name(p)[2] # <<>>

\* C8: get_file_url(P) of a stored key P = directory/leaf is the base URL followed
\* by the percent-encoding of the whole key, its '/' included.
C8_UrlQuotesFullKey ==
    (/\ ret.op = "get_file_url"
     /\ ret.out.kind = "return"
     /\ ret.args[1] \in DOMAIN objects
     /\ IsDirLeaf(ret.args[1]))
        => ret.out.value = self.base_url \o Str(quote(ret.args[1]))

\* Some stored key, at the root or under a directory, has the leaf name `leaf`.
LeafStored(objs, leaf) ==
    \E k \in DOMAIN objs : _parse_object_path_name(k)[2] = leaf

\* C9: upload_file(local, remote_dir, overwrite=False) of an existing local file
\* whose leaf name some stored key has, with no provider failure, issues no put,
\* leaves every object as it is and returns True.
C9_NoOverwriteKeepsObjects ==
    [][(/\ Idle
        /\ ret'.op = "upload_file"
        /\ ret'.failAt = 0
        /\ ret'.args[3] = FALSE
        /\ ret'.args[1] \in DOMAIN LocalFS
        /\ LeafStored(objects, PathName(ret'.args[1])))
           => /\ objects' = objects
              /\ \A c \in 1..Len(calls') : calls'[c].call # "put_object"
              /\ ret'.out = Return(TRUE)]_vars

\* C10: delete_file(P) returns a result and raises nothing, whatever the path and
\* the bucket, when no provider call fails.
C10_DeleteFileNeverRaises ==
    (ret.op = "delete_file" /\ ret.failAt = 0) => ret.out.kind = "return"

\* The delete_object calls among the provider calls cs.
DeleteCalls(cs) == SelectSeq(cs, LAMBDA c : c.call = "delete_object")

\* C11: when the listing of delete_all_files or delete_dir_files succeeded, a
\* delete is attempted for every listed object, also after a delete that failed.
C11_BulkDeleteContinues ==
    /\ (ret.op = "delete_all_files" /\ ret.failAt # 1)
          => Len(DeleteCalls(calls)) = Cardinality(DOMAIN ret.before)
    /\ ret.op = "delete_dir_files"
          => LET l == list_dir_files(ret.before, 0, <<>>, ret.args[1])
             IN  (l.out.kind = "return" /\ ret.failAt \notin 1..Len(l.calls))
                    => Len(DeleteCalls(calls)) = Len(l.out.value)

\* C12: list_dir_files("") and list_dir_files("/") issue the one listing call, with
\* no check of the directory, and both return every key of the bucket.
C12_RootListsWholeBucket ==
    (/\ ret.op = "list_dir_files"
     /\ ret.args[1] \in {<<>>, <<"/">>}
     /\ ret.failAt # 1)
        => /\ Len(calls) = 1
           /\ ret.out = Return(SortKeys(DOMAIN objects))

(***************************************************************************)
(* _parse_object_path_name on its own: the paths of up to MaxPathLen       *)
(* characters and the two paths of the documentation.                      *)
(***************************************************************************)
PathChars == {"/", "a", "b"}

ParseInputs ==
    UNION {[1..n -> PathChars] : n \in 0..MaxPathLen}
        \cup {<<"/", "a", "/", "b", "/", "c", ".", "t", "x", "t">>,
              <<"c", ".", "t", "x", "t">>}

\* A handle constructed on the identity of the region that hosts the bucket.
Constructed ==
    LET st == RunResolution([self |-> NewHandle(TencentCos(SecretId, SecretKey,
                                                           "ap-guangzhou"), BucketName),
                             pc |-> "resolving", i |-> 1, probes |-> <<>>],
                            {"ap-guangzhou"})
    IN  /\ self = st.self
        /\ pc = st.pc
        /\ i = st.i
        /\ probes = st.probes
        /\ faults = 0
        /\ home = {"ap-guangzhou"}

\* A constructed handle whose caller is about to parse a path.
InitParse ==
    /\ Constructed
    /\ objects = EmptyBucket
    /\ local = NoFiles
    /\ calls = <<>>
    /\ \E p \in ParseInputs : ret = [op |-> "input", args |-> <<p>>]

ParseObjectPathName ==
    /\ pc = "done"
    /\ ret.op = "input"
    /\ ret' = [op |-> "_parse_object_path_name", args |-> ret.args,
               out |-> Return(_parse_object_path_name(ret.args[1]))]
    /\ UNCHANGED <<calls, objects, local, Handle>>

NextParse == ParseObjectPathName

SpecParse == InitParse /\ [][NextParse]_vars

\* The pair the documentation gives for a path: the directory prefix up to the last
\* '/' without a leading '/', and the leaf after the last '/'.
ParseDocumented(path) ==
    LET q == IF StartsWith(path, <<"/">>) THEN Drop(path, 1) ELSE path
        k == LastSlash(q)
    IN  IF k = 0 THEN <<<<>>, q>> ELSE <<SubSeq(q, 1, k - 1), Drop(q, k)>>

\* C13: _parse_object_path_name splits at the last '/': a path without '/' gives
\* ("", path), a path with a leading '/' gives the directory without that '/',
\* and the leaf holds no '/'.
C13_ParseSplitsAtLastSlash ==
    ret.op = "_parse_object_path_name"
        => /\ ret.out.value = ParseDocumented(ret.args[1])
           /\ ~HasSlash(ret.out.value[2])

\* The key of the marker object of the directory d, and the directory's name.
MarkerKey(d) == IF EndsWith(d, <<"/">>) THEN d ELSE d \o <<"/">>
DirName(d) == DropLast(MarkerKey(d))

\* How often x occurs in the sequence s.
Count(x, s) == Cardinality({k \in 1..Len(s) : s[k] = x})

\* C14: mkdir(D) whose provider call succeeds returns True and leaves D exactly once
\* in list_all_dirs(); when the marker of D was already there (a second mkdir, with
\* or without the trailing '/'), it leaves the bucket as it found it.
C14_MkdirIdempotent ==
    (ret.op = "mkdir" /\ ret.failAt # 1)
        => /\ ret.out = Return(TRUE)
           /\ Count(DirName(ret.args[1]), list_all_dirs(objects, 0, <<>>).out.value) = 1
           /\ MarkerKey(ret.args[1]) \in DOMAIN ret.before => objects = ret.before

\* A second mkdir of a directory that was made with the other spelling, beside a file.
C14_Witness ==
    /\ ret.op = "mkdir" /\ ret.failAt = 0
    /\ ret.args[1] = <<"r">>
    /\ <<"r", "/">> \in DOMAIN ret.before
    /\ <<"x">> \in DOMAIN objects
    /\ ret.out = Return(TRUE)

\* The upload put its object: the last provider call is the put_object.
UploadStored ==
    /\ ret.op = "upload_file"
    /\ ret.out = Return(TRUE)
    /\ Len(calls) = 2

\* C15: after an upload that put its object, get_file_md5 on remote_dir joined with
\* the leaf name returns the hash of the local file's bytes; get_file_md5 on a key
\* that is not stored returns ''.
C15_ChecksumRoundTrip ==
    /\ UploadStored
          => LET key == PathJoin(ret.args[2], PathName(ret.args[1]))
             IN  /\ calls[2] = Call("put_object", key)
                 /\ get_file_md5(objects, 0, key).out
                        = Return(get_local_file_md5(LocalFS[ret.args[1]].body))
    /\ (ret.op = "get_file_md5" /\ ret.failAt \notin {1, 2})
          => IF ret.args[1] \in DOMAIN objects
             THEN objects[ret.args[1]].body = ""
                     \/ ret.out = Return(get_local_file_md5(objects[ret.args[1]].body))
             ELSE ret.out = Return("")

\* get_file_md5 gave the hash of the file uploaded from m/x under r/.
C15_Witness ==
    /\ ret.op = "get_file_md5" /\ ret.failAt = 0
    /\ ret.args[1] = <<"r", "/", "x">>
    /\ ret.out = Return(get_local_file_md5("B"))

\* delete_file found its object and deleted it: existence check, listing and delete
\* were issued and none failed.
DeletedFile ==
    /\ ret.op = "delete_file"
    /\ ret.failAt = 0
    /\ Len(calls) = 3
    /\ ret.out.kind = "return"

\* C16: delete_file(P) with no object under P asks the provider only whether P
\* exists, leaves the bucket as it is and returns True; so does a second
\* delete_file(P) after one that deleted P.
C16_DeleteAbsentSucceeds ==
    /\ (ret.op = "delete_file" /\ ret.failAt # 1 /\ ret.args[1] \notin DOMAIN ret.before)
          => /\ calls = <<Call("object_exists", ret.args[1])>>
             /\ objects = ret.before
             /\ ret.out = Return(TRUE)
    /\ DeletedFile
          => LET again == delete_file(objects, 0, ret.args[1])
             IN  /\ again.calls = <<Call("object_exists", ret.args[1])>>
                 /\ again.objs = objects
                 /\ again.out = Return(TRUE)

\* delete_file("r/x") on a bucket that holds other objects but not r/x.
C16_Witness ==
    /\ ret.op = "delete_file" /\ ret.failAt = 0
    /\ ret.args[1] = <<"r", "/", "x">>
    /\ DOMAIN ret.before = {<<"r", "/">>, <<"x">>}
    /\ objects = ret.before
    /\ Len(calls) = 1

\* C17: on a constructed handle no step of an object operation changes the identity,
\* the full name, the base URL or the region of the handle, and none probes again.
C17_OperationsKeepHandle ==
    [][pc = "done" => /\ self'.cos = self.cos
                      /\ self'.full_name = self.full_name
                      /\ self'.base_url = self.base_url
                      /\ self'.region = self.region
                      /\ self' = self
                      /\ probes' = probes
                      /\ pc' = pc
                      /\ i' = i]_vars

\* A download failed on a bucket that holds objects, on a handle whose construction
\* probed the provider and swapped the identity.
C17_Witness ==
    /\ pc = "done"
    /\ Len(probes) > 0
    /\ self.cos.region = "ap-guangzhou"
    /\ ret.op = "download_file" /\ ret.failAt = 1
    /\ <<"x">> \in DOMAIN objects
    /\ <<"d", "/", "x">> \in DOMAIN local

(***************************************************************************)
(* _list_objects on its own, on buckets with a directory r inside the      *)
(* directory r.                                                            *)
(***************************************************************************)
ListKeys ==
    {<<"x">>, <<"r", "/">>, <<"r", "/", "x">>, <<"r", "/", "r", "/">>,
     <<"r", "/", "r", "/", "x">>}

ListPrefixes == {<<>>, <<"r", "/">>, <<"r", "/", "r", "/">>, <<"x">>}

\* The bucket that holds the keys S: markers as mkdir puts them, files as
\* upload_file puts l/x.
BucketOf(S) ==
    [k \in S |-> IF EndsWith(k, <<"/">>) THEN [body |-> "", md5 |-> None]
                 ELSE [body |-> "A", md5 |-> get_local_file_md5("A")]]

InitList ==
    /\ Constructed
    /\ \E S \in SUBSET ListKeys : objects = BucketOf(S)
    /\ local = NoFiles
    /\ ret = NoRet
    /\ calls = <<>>

ListObjects ==
    \E prefix \in ListPrefixes, f \in FailChoices :
        LET r == _list_objects(objects, f, <<>>, prefix)
        IN  Idle /\ UNCHANGED objects /\ Done("_list_objects", <<prefix>>, f, r)

NextList == ListObjects

SpecList == InitList /\ [][NextList]_vars

\* C18: for a non-empty prefix p, _list_objects(p) returns, for every key the
\* provider gives for p, the key without its leading p: p followed by the returned
\* name is the key.
C18_StripsLeadingPrefixOnly ==
    (ret.op = "_list_objects" /\ ret.args[1] # <<>> /\ ret.out.kind = "return")
        => LET keys == ListObjectsKeys(objects, ret.args[1])
           IN  /\ Len(ret.out.value) = Len(keys)
               /\ \A k \in 1..Len(keys) : ret.args[1] \o ret.out.value[k] = keys[k]

\* C19: delete_dir_files(D) of a directory D other than the root asks the provider to
\* delete only keys that start with D/, and every object outside D stays as it was.
C19_DeleteDirFilesKeepsOutside ==
    OnDir("delete_dir_files")
        => LET d == NormalDir(ret.args[1])
           IN  /\ \A c \in 1..Len(calls) :
                      calls[c].call = "delete_object" => StartsWith(calls[c].key, d)
               /\ \A k \in DOMAIN ret.before :
                      ~StartsWith(k, d) => k \in DOMAIN objects /\ objects[k] = ret.before[k]

(***************************************************************************)
(* mkdir and list_dir_files on directory paths in every spelling: with and *)
(* without a leading and a trailing '/'.                                   *)
(***************************************************************************)
DirPaths ==
    {<<"r">>, <<"r", "/">>, <<"/", "r">>, <<"/", "r", "/">>, <<"b">>, <<"/", "b">>}

InitDirs ==
    /\ Constructed
    /\ objects = EmptyBucket
    /\ local = NoFiles
    /\ ret = NoRet
    /\ calls = <<>>

MkdirPath ==
    \E d \in DirPaths, f \in FailChoices :
        LET r == mkdir(objects, f, d)
        IN  Idle /\ objects' = r.objs /\ Done("mkdir", <<d>>, f, r)

ListDirPath ==
    \E d \in DirPaths, f \in FailChoices :
        LET r == list_dir_files(objects, f, <<>>, d)
        IN  Idle /\ UNCHANGED objects /\ Done("list_dir_files", <<d>>, f, r)

NextDirs == MkdirPath \/ ListDirPath \/ CallerContinues

SpecDirs == InitDirs /\ [][NextDirs]_vars

\* C20: once mkdir(D) returned True, list_dir_files(D) does not raise
\* CosBucketDirNotFoundError, whatever the spelling of D.
C20_MadeDirIsListed ==
    /\ (ret.op = "mkdir" /\ ret.failAt # 1)
          => list_dir_files(objects, 0, <<>>, ret.args[1]).out.kind = "return"
    /\ (ret.op = "list_dir_files" /\ MarkerKey(ret.args[1]) \in DOMAIN objects)
          => ret.out # Raise("CosBucketDirNotFoundError")

====
